---- MODULE Spec2Model ----
(***************************************************************************)
(* Model of snorkel.classification.training.trainer.Trainer: one call of   *)
(* train_model(model, dataloaders) on a Trainer built from a config.       *)
(* Learning rates, losses and warmup settings are exact rationals.         *)
(***************************************************************************)
EXTENDS Integers, Sequences, FiniteSets, TLC

(* ------------------------------ bounds --------------------------------- *)
MaxEpochs == 2
MaxLoaderLen == 2

Tasks == {"t1", "t2"}
\* the loss the model reports for a task, whenever the task is in the batch
LossOf == [t \in Tasks |-> IF t = "t1" THEN 1 ELSE 2]
CountVals == {0, 1}

(* ----------------------------- rationals ------------------------------- *)
Abs(x) == IF x < 0 THEN -x ELSE x

RECURSIVE GCD(_, _)
GCD(a, b) == IF b = 0 THEN a ELSE GCD(b, a % b)

\* n/d in lowest terms with a positive denominator (d # 0)
Rat(n, d) ==
    LET s == IF d < 0 THEN -1 ELSE 1
        g == GCD(Abs(n), Abs(d))
    IN  [n |-> (s * n) \div g, d |-> (s * d) \div g]

RInt(k) == [n |-> k, d |-> 1]
RMul(a, b) == Rat(a.n * b.n, a.d * b.d)
RLt(a, b) == a.n * b.d < b.n * a.d
RLe(a, b) == a.n * b.d <= b.n * a.d
RIsZero(a) == a.n = 0

\* Python int() of a non-negative rational: truncation
RTrunc(a) == a.n \div a.d

RECURSIVE RPow(_, _)
RPow(a, k) == IF k = 0 THEN RInt(1) ELSE RMul(a, RPow(a, k - 1))

(* --------------------------- configuration ----------------------------- *)
TrainSplit == "train"
ValidSplit == "valid"
TestSplit == "test"

None == "None"
Unset == "unset"

\* default_config of the package, as merged by Trainer.__init__
DefaultCfg ==
    [ n_epochs          |-> 1,
      logging           |-> FALSE,
      writer            |-> "tensorboard",
      checkpointing     |-> FALSE,
      optimizer         |-> "adam",
      lr                |-> Rat(1, 2),
      lr_scheduler      |-> "constant",
      warmup_steps      |-> RInt(0),
      warmup_unit       |-> "batches",
      warmup_percentage |-> RInt(0),
      min_lr            |-> RInt(0),
      exponential_gamma |-> Rat(1, 2),
      step_size         |-> 2,
      step_gamma        |-> Rat(1, 10),
      batch_scheduler   |-> "shuffled" ]

\* the values each option is drawn from
CfgValues ==
    [ n_epochs          |-> 1..MaxEpochs,
      logging           |-> BOOLEAN,
      writer            |-> {"json", "tensorboard", "bogus"},
      checkpointing     |-> BOOLEAN,
      optimizer         |-> {"sgd", "adam", "adamax", "bogus"},
      lr                |-> {Rat(1, 2)},
      lr_scheduler      |-> {"constant", "linear", "exponential", "step", "bogus"},
      warmup_steps      |-> {RInt(-1), RInt(0), Rat(1, 2), RInt(1), RInt(2), RInt(3)},
      warmup_unit       |-> {"batches", "epochs", "bogus"},
      warmup_percentage |-> {RInt(0), Rat(1, 4), Rat(1, 2)},
      min_lr            |-> {RInt(0), Rat(1, 5)},
      exponential_gamma |-> {Rat(1, 2)},
      step_size         |-> {2},
      step_gamma        |-> {Rat(1, 10)},
      batch_scheduler   |-> {"shuffled", "sequential", "bogus"} ]

\* one keyword argument of Trainer(**kwargs)
Kwargs == UNION {{<<k, v>> : v \in CfgValues[k]} : k \in DOMAIN DefaultCfg}

\* recursive_merge_dicts(default_config, kwargs) for one key
Merge(c, kv) == [c EXCEPT ![kv[1]] = kv[2]]

\* Trainer.__init__: the defaults with at most two options overridden
Configs == {Merge(Merge(DefaultCfg, a), b) : a \in Kwargs, b \in Kwargs}

\* every combination of the options that shape the learning-rate schedule
ScheduleConfigs ==
    {[DefaultCfg EXCEPT !.lr_scheduler = p, !.warmup_steps = w, !.min_lr = m, !.n_epochs = n] :
        p \in CfgValues.lr_scheduler, w \in CfgValues.warmup_steps,
        m \in CfgValues.min_lr, n \in CfgValues.n_epochs}

(* ----------------------------- dataloaders ----------------------------- *)
Splits == {TrainSplit, ValidSplit, TestSplit, "bogus"}
Loaders == [split : Splits, len : 1..MaxLoaderLen]

\* the dataset name of the i-th loader
DatasetName(i) == IF i = 1 THEN "d1" ELSE "d2"

LoaderLists ==
    {<<>>} \cup {<<a>> : a \in Loaders} \cup {<<a, b>> : a \in Loaders, b \in Loaders}
\* the training loaders (by position), as selected in train_model
TrainIdx(dls) == {i \in DOMAIN dls : dls[i].split = TrainSplit}

RECURSIVE SumLens(_, _)
SumLens(dls, I) ==
    IF I = {} THEN 0
    ELSE LET i == CHOOSE x \in I : TRUE IN dls[i].len + SumLens(dls, I \ {i})

\* variant: the loaders of every split are counted
NBatchesPerEpoch_all(dls) == SumLens(dls, DOMAIN dls)

\* sum of len(dataloader) over the training loaders
NBatchesPerEpoch(dls) == SumLens(dls, TrainIdx(dls))

\* variant: the training-split test made before the recognised-split test
CheckDataloaders_order(dls) ==
    LET all_splits == {TrainSplit, ValidSplit, TestSplit} IN
    IF ~ (\E i \in DOMAIN dls : dls[i].split = TrainSplit) THEN "NoTrainingData"
    ELSE IF ~ (\A i \in DOMAIN dls : dls[i].split \in all_splits) THEN "InvalidSplit"
    ELSE "ok"

\* variant: an empty list of loaders passes the training-split test
CheckDataloaders_empty(dls) ==
    LET all_splits == {TrainSplit, ValidSplit, TestSplit} IN
    IF ~ (\A i \in DOMAIN dls : dls[i].split \in all_splits) THEN "InvalidSplit"
    ELSE IF dls # <<>> /\ ~ (\E i \in DOMAIN dls : dls[i].split = TrainSplit)
    THEN "NoTrainingData"
    ELSE "ok"

\* Trainer._check_dataloaders: "ok" or the error raised
CheckDataloaders(dls) ==
    LET all_splits == {TrainSplit, ValidSplit, TestSplit} IN
    IF ~ (\A i \in DOMAIN dls : dls[i].split \in all_splits) THEN "InvalidSplit"
    ELSE IF ~ (\E i \in DOMAIN dls : dls[i].split = TrainSplit) THEN "NoTrainingData"
    ELSE "ok"

(* --------------------------- dictionaries ------------------------------ *)
EmptyDict == [k \in {} |-> 0]
Get(d, k) == IF k \in DOMAIN d THEN d[k] ELSE 0

RECURSIVE SumOver(_, _)
SumOver(d, K) ==
    IF K = {} THEN 0
    ELSE LET k == CHOOSE x \in K : TRUE IN d[k] + SumOver(d, K \ {k})

SumValues(d) == SumOver(d, DOMAIN d)

\* "/".join([task_name, dataset.name, dataset.split, "loss"])
Identifier(task, name, split) == task \o "/" \o name \o "/" \o split \o "/loss"
(* ------------------------------- state --------------------------------- *)
VARIABLES
    cfg,                  \* self.config
    dataloaders,          \* the list handed to train_model
    model_tasks,          \* the task names of the model handed to train_model
    yield_slack,          \* batches the scheduler yields beyond sum(len(loader))
    pc,                   \* position inside train_model
    err,                  \* the exception that ended the call, or None
    n_batches_per_epoch,  \* -1 until computed
    log_writer, checkpointer, log_manager, optimizer, batch_scheduler,
    lr,                   \* optimizer.param_groups[0]["lr"]
    warmup_steps,         \* self.warmup_steps, -1 until set
    warmup_scheduler, lr_scheduler,
    model_mode,           \* "init", "train" or "eval"
    epoch_num, batch_num,
    remaining,            \* batches the scheduler still yields this epoch, per loader
    running_losses, running_counts,
    cur,                  \* the batch being processed and what was done for it
    win,                  \* what was accumulated since the last reset
    cnt,                  \* calls made on the collaborators so far
    result                \* what train_model returned and what close() received

helpers == <<log_writer, checkpointer, log_manager, optimizer, batch_scheduler>>
sched == <<lr, warmup_steps, warmup_scheduler, lr_scheduler>>
clock == <<epoch_num, batch_num, remaining>>
accum == <<running_losses, running_counts, win>>
inputs == <<cfg, dataloaders, model_tasks, yield_slack>>
vars == <<inputs, pc, err, n_batches_per_epoch, helpers, sched, model_mode, clock,
          accum, cur, cnt, result>>

NoScheduler == [kind |-> Unset, last_epoch |-> 0]
NoCheckpointer == [kind |-> None, checkpoint_dir |-> None]
UnsetCheckpointer == [kind |-> Unset, checkpoint_dir |-> None]
NoBatch ==
    [ total_batch_num |-> -1, loader |-> 0, batch_size |-> 0, empty |-> TRUE,
      lr_updates |-> 0, zero_grads |-> 0, backwards |-> 0, opt_steps |-> 0,
      step_lr |-> RInt(0),
      updates |-> <<>>, triggers_consulted |-> FALSE,
      evaluated |-> FALSE, checkpointed |-> FALSE,
      ckpt_trigger |-> FALSE, ckpt_raised |-> FALSE,
      agg_win |-> [loss |-> 0, count |-> 0, batches |-> 0],
      metric_dict |-> EmptyDict, written |-> EmptyDict, ckpt_metrics |-> EmptyDict ]
NoWindow == [loss |-> 0, count |-> 0, batches |-> 0]
NoCalls ==
    [ yielded |-> 0, nonempty |-> 0, zero_grad |-> 0, backward |-> 0,
      opt_step |-> 0, update |-> 0, aggregate |-> 0, close |-> 0 ]
NoResult == [returned |-> Unset, close_arg |-> -1, close_at |-> -1, close_ret |-> Unset]

\* a single training loader, used when the configuration varies
PlainLoaderLists == {<<[split |-> TrainSplit, len |-> n]>> : n \in 1..MaxLoaderLen}
\* a single-task model, used when the configuration varies
PlainTasks == {"t1"}

\* the configurations used when the loaders vary: the defaults, without and with a
\* checkpointer
PlainConfigs == {DefaultCfg, [DefaultCfg EXCEPT !.checkpointing = TRUE]}

\* the Trainer and the call before the first statement of train_model
Fresh ==
    /\ pc = "check_dataloaders"
    /\ err = None
    /\ n_batches_per_epoch = -1
    /\ log_writer = Unset /\ checkpointer = UnsetCheckpointer /\ log_manager = Unset
    /\ optimizer = Unset /\ batch_scheduler = Unset
    /\ lr = RInt(0)
    /\ warmup_steps = -1
    /\ warmup_scheduler = NoScheduler /\ lr_scheduler = NoScheduler
    /\ model_mode = "init"
    /\ epoch_num = 0 /\ batch_num = 0
    /\ remaining = EmptyDict
    /\ running_losses = EmptyDict /\ running_counts = EmptyDict
    /\ cur = NoBatch
    /\ win = NoWindow
    /\ cnt = NoCalls
    /\ result = NoResult

\* the registered schedulers yield every batch of every loader once
Init ==
    /\ \/ /\ cfg \in Configs \cup ScheduleConfigs
          /\ dataloaders \in PlainLoaderLists
          /\ model_tasks = PlainTasks
       \/ /\ cfg \in PlainConfigs
          /\ dataloaders \in LoaderLists
          /\ model_tasks = Tasks
    /\ yield_slack = 0
    /\ Fresh

Fail(e) == pc' = "failed" /\ err' = e

(* train_model, lines 46-58 *)
Validate ==
    /\ pc = "check_dataloaders"
    /\ LET r == CheckDataloaders(dataloaders) IN
       IF r # "ok"
       THEN Fail(r) /\ UNCHANGED n_batches_per_epoch
       ELSE /\ n_batches_per_epoch' = NBatchesPerEpoch(dataloaders)
            /\ pc' = "set_log_writer"
            /\ UNCHANGED err
    /\ UNCHANGED <<inputs, helpers, sched, model_mode, clock, accum, cur, cnt, result>>

\* variant: the writer is built whether or not logging is enabled
LogWriterFor_always(c) ==
    IF c.writer = "json" THEN "LogWriter"
    ELSE IF c.writer = "tensorboard" THEN "TensorBoardWriter"
    ELSE "error"

\* Trainer._set_log_writer: the writer built, None, or "error"
LogWriterFor(c) ==
    IF c.logging
    THEN IF c.writer = "json" THEN "LogWriter"
         ELSE IF c.writer = "tensorboard" THEN "TensorBoardWriter"
         ELSE "error"
    ELSE None

SetLogWriter ==
    /\ pc = "set_log_writer"
    /\ LET w == LogWriterFor(cfg) IN
       IF w = "error"
       THEN Fail("UnrecognizedWriter") /\ UNCHANGED log_writer
       ELSE log_writer' = w /\ pc' = "set_checkpointer" /\ UNCHANGED err
    /\ UNCHANGED <<inputs, n_batches_per_epoch, checkpointer, log_manager, optimizer,
                   batch_scheduler, sched, model_mode, clock, accum, cur, cnt, result>>

\* Trainer._set_checkpointer: checkpoint_dir is unset in the configuration and is
\* taken from the log writer when there is one
CheckpointerFor(c, writer) ==
    IF c.checkpointing
    THEN [kind |-> "Checkpointer",
          checkpoint_dir |-> IF writer # None THEN "log_dir" ELSE None]
    ELSE NoCheckpointer

SetCheckpointer ==
    /\ pc = "set_checkpointer"
    /\ checkpointer' = CheckpointerFor(cfg, log_writer)
    /\ pc' = "set_log_manager"
    /\ UNCHANGED <<inputs, err, n_batches_per_epoch, log_writer, log_manager, optimizer,
                   batch_scheduler, sched, model_mode, clock, accum, cur, cnt, result>>

SetLogManager ==
    /\ pc = "set_log_manager"
    /\ log_manager' = "LogManager"
    /\ pc' = "set_optimizer"
    /\ UNCHANGED <<inputs, err, n_batches_per_epoch, log_writer, checkpointer, optimizer,
                   batch_scheduler, sched, model_mode, clock, accum, cur, cnt, result>>

\* Trainer._set_optimizer: the optimizer class, or "error"
OptimizerFor(c) ==
    IF c.optimizer = "sgd" THEN "SGD"
    ELSE IF c.optimizer = "adam" THEN "Adam"
    ELSE IF c.optimizer = "adamax" THEN "Adamax"
    ELSE "error"

SetOptimizer ==
    /\ pc = "set_optimizer"
    /\ LET o == OptimizerFor(cfg) IN
       IF o = "error"
       THEN Fail("UnrecognizedOptimizer") /\ UNCHANGED <<optimizer, lr>>
       ELSE optimizer' = o /\ lr' = cfg.lr /\ pc' = "set_lr_scheduler" /\ UNCHANGED err
    /\ UNCHANGED <<inputs, n_batches_per_epoch, log_writer, checkpointer, log_manager,
                   batch_scheduler, warmup_steps, warmup_scheduler, lr_scheduler,
                   model_mode, clock, accum, cur, cnt, result>>
(* ------------------------ learning-rate schedule ----------------------- *)
\* linear_warmup_func = lambda x: x / self.warmup_steps
LinearWarmupFunc(x, W) == Rat(x, W)

\* variant: the decay is spread over all steps of the run, warmup included
LinearDecayFunc_total(x, T, W) == Rat(T - W - x, T)

\* linear_decay_func = lambda x: (total_steps - warmup_steps - x) / (total_steps - warmup_steps)
LinearDecayFunc(x, T, W) == Rat(T - W - x, T - W)

TotalSteps(c, nbpe) == nbpe * c.n_epochs

\* Trainer._set_warmup_scheduler: the error raised (or None), self.warmup_steps
\* (-1 when never assigned) and whether a warmup schedule was built
SetWarmupScheduler(c, nbpe) ==
    IF ~ RIsZero(c.warmup_steps)
    THEN IF RLt(c.warmup_steps, RInt(0))
         THEN [err |-> "InvalidWarmup", warmup_steps |-> -1, built |-> FALSE]
         ELSE IF c.warmup_unit \notin {"epochs", "batches"}
         THEN [err |-> "InvalidWarmupUnit", warmup_steps |-> -1, built |-> FALSE]
         ELSE LET W == IF c.warmup_unit = "epochs"
                       THEN RTrunc(RMul(c.warmup_steps, RInt(nbpe)))
                       ELSE RTrunc(c.warmup_steps)
              IN  IF W = 0
                  THEN [err |-> "ZeroDivisionError", warmup_steps |-> W, built |-> FALSE]
                  ELSE [err |-> None, warmup_steps |-> W, built |-> TRUE]
    ELSE IF ~ RIsZero(c.warmup_percentage)
    THEN LET W == RTrunc(RMul(c.warmup_percentage, RInt(c.n_epochs * nbpe)))
         IN  IF W = 0
             THEN [err |-> "ZeroDivisionError", warmup_steps |-> W, built |-> FALSE]
             ELSE [err |-> None, warmup_steps |-> W, built |-> TRUE]
    ELSE [err |-> None, warmup_steps |-> 0, built |-> FALSE]

\* Trainer._set_lr_scheduler after the warmup: the scheduler class, None, or the error
LrSchedulerFor(c, nbpe, W) ==
    IF c.lr_scheduler = "constant" THEN None
    ELSE IF c.lr_scheduler = "linear"
    THEN IF TotalSteps(c, nbpe) - W = 0 THEN "ZeroDivisionError" ELSE "LambdaLR"
    ELSE IF c.lr_scheduler = "exponential" THEN "ExponentialLR"
    ELSE IF c.lr_scheduler = "step" THEN "StepLR"
    ELSE "UnrecognizedScheduler"

\* the decay schedule's own value after x of its steps (closed form of get_lr)
DecayLr(c, nbpe, W, kind, x) ==
    IF kind = "LambdaLR" THEN RMul(c.lr, LinearDecayFunc(x, TotalSteps(c, nbpe), W))
    ELSE IF kind = "ExponentialLR" THEN RMul(c.lr, RPow(c.exponential_gamma, x))
    ELSE RMul(c.lr, RPow(c.step_gamma, x \div c.step_size))

\* variant: the multiplier of the step before
WarmupLr_lag(c, W, x) == RMul(c.lr, LinearWarmupFunc(x - 1, W))

\* the warmup schedule's value after x of its steps
WarmupLr(c, W, x) == RMul(c.lr, LinearWarmupFunc(x, W))

SetLrScheduler ==
    /\ pc = "set_lr_scheduler"
    /\ LET w == SetWarmupScheduler(cfg, n_batches_per_epoch)
           k == LrSchedulerFor(cfg, n_batches_per_epoch, w.warmup_steps)
           lr1 == IF w.built THEN WarmupLr(cfg, w.warmup_steps, 0) ELSE lr
       IN
       /\ warmup_steps' = w.warmup_steps
       /\ IF w.err # None
          THEN Fail(w.err) /\ UNCHANGED <<lr, warmup_scheduler, lr_scheduler>>
          ELSE /\ warmup_scheduler' =
                    IF w.built THEN [kind |-> "LambdaLR", last_epoch |-> 0]
                    ELSE [kind |-> None, last_epoch |-> 0]
               /\ IF k \in {"ZeroDivisionError", "UnrecognizedScheduler"}
                  THEN Fail(k) /\ lr' = lr1 /\ UNCHANGED lr_scheduler
                  ELSE /\ lr_scheduler' = [kind |-> k, last_epoch |-> 0]
                       /\ lr' = IF k = None THEN lr1
                                ELSE DecayLr(cfg, n_batches_per_epoch, w.warmup_steps, k, 0)
                       /\ pc' = "set_batch_scheduler"
                       /\ UNCHANGED err
    /\ UNCHANGED <<inputs, n_batches_per_epoch, helpers, model_mode, clock, accum, cur,
                   cnt, result>>

\* variant: the decay schedule advances in the warmup steps too
UpdateLrScheduler_both(c, nbpe, W, s, step) ==
    LET warm == s.warmup_scheduler.kind # None /\ step < W
        xw == s.warmup_scheduler.last_epoch + 1
        s1 == IF warm
              THEN [s EXCEPT !.warmup_scheduler.last_epoch = xw, !.lr = WarmupLr(c, W, xw)]
              ELSE s
    IN  IF s.lr_scheduler.kind # None
        THEN LET x == s.lr_scheduler.last_epoch + 1
                 v == DecayLr(c, nbpe, W, s.lr_scheduler.kind, x)
             IN  [s1 EXCEPT !.lr_scheduler.last_epoch = x,
                            !.lr = IF warm THEN s1.lr
                                   ELSE IF ~ RIsZero(c.min_lr) /\ RLt(v, c.min_lr)
                                   THEN c.min_lr ELSE v]
        ELSE s1

\* variant: the decayed rate is not compared with min_lr
UpdateLrScheduler_nofloor(c, nbpe, W, s, step) ==
    IF s.warmup_scheduler.kind # None /\ step < W
    THEN LET x == s.warmup_scheduler.last_epoch + 1 IN
         [s EXCEPT !.warmup_scheduler.last_epoch = x, !.lr = WarmupLr(c, W, x)]
    ELSE IF s.lr_scheduler.kind # None
    THEN LET x == s.lr_scheduler.last_epoch + 1 IN
         [s EXCEPT !.lr_scheduler.last_epoch = x,
                   !.lr = DecayLr(c, nbpe, W, s.lr_scheduler.kind, x)]
    ELSE s

\* Trainer._update_lr_scheduler(step) on s = [lr, warmup_scheduler, lr_scheduler]
UpdateLrScheduler(c, nbpe, W, s, step) ==
    IF s.warmup_scheduler.kind # None /\ step < W
    THEN LET x == s.warmup_scheduler.last_epoch + 1 IN
         [s EXCEPT !.warmup_scheduler.last_epoch = x, !.lr = WarmupLr(c, W, x)]
    ELSE IF s.lr_scheduler.kind # None
    THEN LET x == s.lr_scheduler.last_epoch + 1
             v == DecayLr(c, nbpe, W, s.lr_scheduler.kind, x)
         IN  [s EXCEPT !.lr_scheduler.last_epoch = x,
                       !.lr = IF ~ RIsZero(c.min_lr) /\ RLt(v, c.min_lr) THEN c.min_lr ELSE v]
    ELSE s

\* Trainer._set_batch_scheduler: batch_schedulers.get(name)
BatchSchedulerFor(c) ==
    IF c.batch_scheduler \in {"shuffled", "sequential"} THEN c.batch_scheduler ELSE "error"

\* get_batches: how many batches each training loader yields in an epoch
Yields(dls, slack) ==
    LET I == TrainIdx(dls)
        first == CHOOSE i \in I : \A j \in I : i <= j
    IN  [i \in I |-> IF i = first /\ dls[i].len + slack >= 0
                     THEN dls[i].len + slack ELSE dls[i].len]

SetBatchScheduler ==
    /\ pc = "set_batch_scheduler"
    /\ LET b == BatchSchedulerFor(cfg) IN
       IF b = "error"
       THEN Fail("UnrecognizedBatchScheduler") /\ UNCHANGED batch_scheduler
       ELSE batch_scheduler' = b /\ pc' = "start" /\ UNCHANGED err
    /\ UNCHANGED <<inputs, n_batches_per_epoch, log_writer, checkpointer, log_manager,
                   optimizer, sched, model_mode, clock, accum, cur, cnt, result>>

(* train_model, lines 68-78: model.train(), empty accumulators, first epoch *)
StartTraining ==
    /\ pc = "start"
    /\ model_mode' = "train"
    /\ running_losses' = EmptyDict /\ running_counts' = EmptyDict /\ win' = NoWindow
    /\ epoch_num' = 0 /\ batch_num' = 0
    /\ remaining' = Yields(dataloaders, yield_slack)
    /\ pc' = "batch"
    /\ UNCHANGED <<inputs, err, n_batches_per_epoch, helpers, sched, cur, cnt, result>>
(* ------------------------------ batches -------------------------------- *)
\* what model.calculate_loss can return: per-task loss and count, same tasks in both
LossDicts(tasks) == {[t \in S |-> LossOf[t]] : S \in SUBSET tasks}
CountDicts(ld) == [DOMAIN ld -> CountVals]

\* the batch size is a property of the loader the batch comes from
BatchSizeOf(i) == i

\* the loaders the batch scheduler may take the next batch from
NextLoaders(name, rem) ==
    LET live == {i \in DOMAIN rem : rem[i] > 0} IN
    IF name = "sequential"
    THEN {i \in live : \A j \in live : i <= j}
    ELSE live

\* variant: every task gets a count entry, also the tasks absent from the batch
AccumulateLosses_alltasks(rl, rc, ld, cd, i, split) ==
    LET id(t) == Identifier(t, DatasetName(i), split)
        ids == {id(t) : t \in DOMAIN ld}
        task(k) == CHOOSE t \in DOMAIN ld : id(t) = k
    IN  [ losses |-> [k \in DOMAIN rl \cup ids |->
                        IF k \in ids THEN Get(rl, k) + ld[task(k)] * cd[task(k)]
                        ELSE rl[k]],
          counts |-> [t \in DOMAIN rc \cup Tasks |->
                        IF t \in DOMAIN ld THEN Get(rc, t) + cd[t] ELSE Get(rc, t)] ]

\* variant: the loss is added without its count as weight
AccumulateLosses_unweighted(rl, rc, ld, cd, i, split) ==
    LET id(t) == Identifier(t, DatasetName(i), split)
        ids == {id(t) : t \in DOMAIN ld}
        task(k) == CHOOSE t \in DOMAIN ld : id(t) = k
    IN  [ losses |-> [k \in DOMAIN rl \cup ids |->
                        IF k \in ids THEN Get(rl, k) + ld[task(k)] ELSE rl[k]],
          counts |-> [t \in DOMAIN rc \cup DOMAIN ld |->
                        IF t \in DOMAIN ld THEN Get(rc, t) + cd[t] ELSE rc[t]] ]

\* train_model, lines 98-111: the accumulators after one batch of loader i
AccumulateLosses(rl, rc, ld, cd, i, split) ==
    LET id(t) == Identifier(t, DatasetName(i), split)
        ids == {id(t) : t \in DOMAIN ld}
        task(k) == CHOOSE t \in DOMAIN ld : id(t) = k
    IN  [ losses |-> [k \in DOMAIN rl \cup ids |->
                        IF k \in ids THEN Get(rl, k) + ld[task(k)] * cd[task(k)]
                        ELSE rl[k]],
          counts |-> [t \in DOMAIN rc \cup DOMAIN ld |->
                        IF t \in DOMAIN ld THEN Get(rc, t) + cd[t] ELSE rc[t]] ]

\* sum of loss * count and of count over the tasks of one batch
BatchLoss(ld, cd) == SumValues([t \in DOMAIN ld |-> ld[t] * cd[t]])
BatchCount(cd) == SumValues(cd)

\* variant: no batch is skipped
SkipBatch_never(ld) == FALSE

\* the continue on line 115: TRUE when the rest of the loop body is skipped
SkipBatch(ld) == DOMAIN ld = {}

\* variant: the clock restarts with every epoch
TotalBatchNum_reset(epoch, nbpe, batch) == batch

\* total_batch_num = epoch_num * self.n_batches_per_epoch + batch_num
TotalBatchNum(epoch, nbpe, batch) == epoch * nbpe + batch

(* train_model, lines 83-130: one yielded batch up to optimizer.step() *)
BatchStep ==
    /\ pc = "batch"
    /\ \E i \in NextLoaders(batch_scheduler, remaining), ld \in LossDicts(model_tasks) :
       \E cd \in CountDicts(ld) :
       LET total == TotalBatchNum(epoch_num, n_batches_per_epoch, batch_num)
           s == UpdateLrScheduler(cfg, n_batches_per_epoch, warmup_steps,
                    [lr |-> lr, warmup_scheduler |-> warmup_scheduler,
                     lr_scheduler |-> lr_scheduler], total)
           acc == AccumulateLosses(running_losses, running_counts, ld, cd, i,
                                   dataloaders[i].split)
           skip == SkipBatch(ld)
           n == IF skip THEN 0 ELSE 1
       IN
       /\ lr' = s.lr
       /\ warmup_scheduler' = s.warmup_scheduler
       /\ lr_scheduler' = s.lr_scheduler
       /\ running_losses' = acc.losses
       /\ running_counts' = acc.counts
       /\ win' = [loss |-> win.loss + BatchLoss(ld, cd),
                  count |-> win.count + BatchCount(cd),
                  batches |-> win.batches + (IF DOMAIN ld = {} THEN 0 ELSE 1)]
       /\ remaining' = [remaining EXCEPT ![i] = @ - 1]
       /\ cur' = [NoBatch EXCEPT !.total_batch_num = total, !.loader = i,
                                 !.batch_size = BatchSizeOf(i),
                                 !.empty = (DOMAIN ld = {}),
                                 !.lr_updates = 1, !.zero_grads = 1,
                                 !.backwards = n, !.opt_steps = n,
                                 !.step_lr = IF skip THEN RInt(0) ELSE s.lr]
       /\ cnt' = [cnt EXCEPT !.yielded = @ + 1,
                             !.nonempty = @ + (IF DOMAIN ld = {} THEN 0 ELSE 1),
                             !.zero_grad = @ + 1,
                             !.backward = @ + n, !.opt_step = @ + n]
       /\ IF skip
          THEN batch_num' = batch_num + 1 /\ pc' = "batch"
          ELSE batch_num' = batch_num /\ pc' = "logging"
    /\ UNCHANGED <<inputs, err, n_batches_per_epoch, helpers, warmup_steps, model_mode,
                   epoch_num, result>>

(* ------------------------------ logging -------------------------------- *)
LossKey == "model/all/train/loss"
LrKey == "model/all/train/lr"

\* Trainer._aggregate_losses: the metrics returned, and running_counts as the
\* lookups of running_counts[identifier] leave it
AggregateLosses(rl, rc, rate) ==
    LET counts == [k \in DOMAIN rc \cup DOMAIN rl |-> Get(rc, k)]
        task_keys == {k \in DOMAIN rl : counts[k] > 0}
        total_loss == SumValues(rl)
        total_count == SumValues(counts)
        keys == task_keys \cup (IF total_count > 0 THEN {LossKey} ELSE {}) \cup {LrKey}
    IN  [ metrics |-> [k \in keys |->
                         IF k = LrKey THEN rate
                         ELSE IF k = LossKey THEN Rat(total_loss, total_count)
                         ELSE Rat(rl[k], counts[k])],
          counts |-> counts ]

\* Trainer._evaluate: model.score over the loaders of the validation split
Evaluate(dls) ==
    [k \in {"score/" \o DatasetName(i) : i \in {j \in DOMAIN dls : dls[j].split = ValidSplit}}
        |-> RInt(1)]

\* dict.update
Update(d, e) == [k \in DOMAIN d \cup DOMAIN e |-> IF k \in DOMAIN e THEN e[k] ELSE d[k]]

\* variant: a failure of checkpointer.checkpoint is swallowed
CheckpointModel_swallow(has_checkpointer, ckpt_ok) == None

\* Trainer._checkpoint_model: the exception it lets through, or None
CheckpointModel(has_checkpointer, ckpt_ok) ==
    IF has_checkpointer /\ ~ ckpt_ok THEN "CheckpointError" ELSE None

\* variant: the accumulators are reset in every logging step
LossesReset_always(eval_trig, ckpt_trig, raised) == TRUE

\* Trainer._logging: whether _reset_losses is reached, after the evaluation or after
\* a checkpoint call that returned
LossesReset(eval_trig, ckpt_trig, raised) == eval_trig \/ (ckpt_trig /\ ~ raised)

\* variant: the model goes back to training mode only after an evaluation
ModeAfterLogging_evalonly(eval_trig, raised) ==
    IF raised \/ ~ eval_trig THEN "eval" ELSE "train"

\* Trainer._logging: model.eval() on entry, model.train() before the return
ModeAfterLogging(eval_trig, raised) == IF raised THEN "eval" ELSE "train"

\* variant: the metrics are aggregated again after the reset that follows evaluation
CheckpointMetrics_afterreset(metric_dict, eval_trig, rate, evals) ==
    IF eval_trig THEN Update(AggregateLosses(EmptyDict, EmptyDict, rate).metrics, evals)
    ELSE metric_dict

\* Trainer._logging, line 363: the metric_dict handed to _checkpoint_model is the one
\* built before any reset
CheckpointMetrics(metric_dict, eval_trig, rate, evals) == metric_dict

(* train_model, lines 132-135, with Trainer._logging: the triggers are the cadence *)
(* manager's answers, ckpt_ok is whether checkpointer.checkpoint returns normally  *)
Logging ==
    /\ pc = "logging"
    /\ \E eval_trig \in BOOLEAN, ckpt_trig \in BOOLEAN, ckpt_ok \in BOOLEAN :
       LET agg == AggregateLosses(running_losses, running_counts, lr)
           metric_dict == IF eval_trig THEN Update(agg.metrics, Evaluate(dataloaders))
                          ELSE agg.metrics
           saves == ckpt_trig /\ checkpointer.kind # None
           ckpt_err == IF ckpt_trig THEN CheckpointModel(checkpointer.kind # None, ckpt_ok)
                       ELSE None
           raised == ckpt_err # None
           reset == LossesReset(eval_trig, ckpt_trig, raised)
       IN
       /\ ~ ckpt_ok => saves
       /\ running_losses' = IF reset THEN EmptyDict ELSE running_losses
       /\ running_counts' = IF reset THEN EmptyDict ELSE agg.counts
       /\ win' = IF reset THEN NoWindow ELSE win
       /\ cnt' = [cnt EXCEPT !.update = @ + 1, !.aggregate = @ + 1]
       /\ cur' = [cur EXCEPT !.updates = Append(@, cur.batch_size),
                             !.triggers_consulted = TRUE,
                             !.evaluated = eval_trig,
                             !.checkpointed = saves /\ ckpt_ok,
                             !.ckpt_trigger = ckpt_trig,
                             !.ckpt_raised = saves /\ ~ ckpt_ok,
                             !.agg_win = win,
                             !.metric_dict = metric_dict,
                             !.written = IF eval_trig /\ log_writer # None
                                         THEN metric_dict ELSE EmptyDict,
                             !.ckpt_metrics =
                                 IF saves
                                 THEN CheckpointMetrics(metric_dict, eval_trig, lr,
                                                        Evaluate(dataloaders))
                                 ELSE EmptyDict]
       /\ model_mode' = ModeAfterLogging(eval_trig, raised)
       /\ IF raised
          THEN Fail(ckpt_err) /\ UNCHANGED batch_num
          ELSE /\ batch_num' = batch_num + 1
               /\ pc' = "batch"
               /\ UNCHANGED err
    /\ UNCHANGED <<inputs, n_batches_per_epoch, helpers, sched, epoch_num, remaining,
                   result>>

(* train_model, line 76: the epoch's batches are exhausted *)
NextEpoch ==
    /\ pc = "batch"
    /\ NextLoaders(batch_scheduler, remaining) = {}
    /\ IF epoch_num + 1 < cfg.n_epochs
       THEN /\ epoch_num' = epoch_num + 1
            /\ batch_num' = 0
            /\ remaining' = Yields(dataloaders, yield_slack)
            /\ pc' = "batch"
       ELSE pc' = "close" /\ UNCHANGED clock
    /\ UNCHANGED <<inputs, err, n_batches_per_epoch, helpers, sched, model_mode, accum,
                   cur, cnt, result>>

\* variant: the value of close() is returned
TrainModelReturn_close(close_ret) == close_ret

\* what a call of train_model evaluates to: the method has no return statement
TrainModelReturn(close_ret) == None

(* train_model, line 137: model = self.log_manager.close(model) *)
Close ==
    /\ pc = "close"
    /\ cnt' = [cnt EXCEPT !.close = @ + 1]
    /\ result' = [returned |-> TrainModelReturn("model_from_close"),
                  close_arg |-> cnt.opt_step, close_at |-> cnt.yielded,
                  close_ret |-> "model_from_close"]
    /\ pc' = "done"
    /\ UNCHANGED <<inputs, err, n_batches_per_epoch, helpers, sched, model_mode, clock,
                   accum, cur>>

Next ==
    \/ Validate
    \/ SetLogWriter
    \/ SetCheckpointer
    \/ SetLogManager
    \/ SetOptimizer
    \/ SetLrScheduler
    \/ SetBatchScheduler
    \/ StartTraining
    \/ BatchStep
    \/ Logging
    \/ NextEpoch
    \/ Close

Spec == Init /\ [][Next]_vars

\* the default configuration run for one epoch or more
EpochConfigs == {[DefaultCfg EXCEPT !.n_epochs = n] : n \in CfgValues.n_epochs}

\* a scheduler whose epoch is one batch shorter or longer than the loaders' lengths
InitAnyYield ==
    /\ cfg \in EpochConfigs /\ dataloaders \in PlainLoaderLists /\ model_tasks = Tasks
    /\ yield_slack \in {-1, 0, 1}
    /\ Fresh
SpecAnyYield == InitAnyYield /\ [][Next]_vars
(* ============================== properties ============================= *)
HelpersUnset ==
    /\ log_writer = Unset /\ checkpointer = UnsetCheckpointer /\ log_manager = Unset
    /\ optimizer = Unset /\ batch_scheduler = Unset
    /\ warmup_scheduler.kind = Unset /\ lr_scheduler.kind = Unset
WriterBuilt == log_writer \in {"LogWriter", "TensorBoardWriter"}
CheckpointerBuilt == checkpointer.kind = "Checkpointer"
NothingTrained == cnt = NoCalls /\ cur = NoBatch /\ model_mode = "init"
Validated == pc # "check_dataloaders"
HasUnknownSplit ==
    \E i \in DOMAIN dataloaders : dataloaders[i].split \notin {TrainSplit, ValidSplit, TestSplit}
HasTrainSplit == \E i \in DOMAIN dataloaders : dataloaders[i].split = TrainSplit

\* C1: a list with a loader of an unrecognised split makes train_model fail with the
\* invalid-split error, also when the list has no training loader, and at that point
\* no helper has been constructed and no batch has been processed.
C1_InvalidSplitFirst ==
    (Validated /\ HasUnknownSplit) =>
        /\ pc = "failed" /\ err = "InvalidSplit"
        /\ HelpersUnset /\ NothingTrained

\* an unrecognised split in a list without any training loader was rejected
C1_Witness ==
    /\ pc = "failed" /\ err = "InvalidSplit"
    /\ ~ HasTrainSplit /\ Len(dataloaders) = 2

\* C2: a list of recognised splits without a training loader (the empty list too)
\* makes train_model fail with the no-training-data error; n_batches_per_epoch is not
\* computed, no helper is built, the model is not put in training mode and no
\* optimizer step is taken.
C2_NoTrainingData ==
    (Validated /\ ~ HasUnknownSplit /\ ~ HasTrainSplit) =>
        /\ pc = "failed" /\ err = "NoTrainingData"
        /\ n_batches_per_epoch = -1
        /\ HelpersUnset /\ NothingTrained /\ cnt.opt_step = 0

\* the empty list of loaders was rejected
C2_Witness == pc = "failed" /\ err = "NoTrainingData" /\ dataloaders = <<>>

ConfigErrors ==
    {"UnrecognizedWriter", "UnrecognizedOptimizer", "UnrecognizedScheduler",
     "UnrecognizedBatchScheduler", "InvalidWarmup", "InvalidWarmupUnit"}

\* C3 as stated: when a configuration error is raised, no log writer and no
\* checkpointer has been constructed and no optimizer step has been taken.
C3_NoSideEffects ==
    (pc = "failed" /\ err \in ConfigErrors) =>
        ~ WriterBuilt /\ ~ CheckpointerBuilt /\ cnt.opt_step = 0

\* C3 amended: a configuration error ends the call before training (no batch, no
\* optimizer step, model not in training mode); only the unrecognised-writer error is
\* raised before any helper exists, every other one is raised after the log writer
\* (when logging is on) and the checkpointer (when checkpointing is on) were built.
C3_AbortsBeforeTraining ==
    (pc = "failed" /\ err \in ConfigErrors) =>
        /\ NothingTrained /\ cnt.opt_step = 0
        /\ err = "UnrecognizedWriter" => HelpersUnset
        /\ err # "UnrecognizedWriter" =>
              /\ WriterBuilt <=> cfg.logging
              /\ CheckpointerBuilt <=> cfg.checkpointing
              /\ log_manager = "LogManager"

\* an unrecognised optimizer was reported after the log writer had been built
C3_Witness == pc = "failed" /\ err = "UnrecognizedOptimizer" /\ WriterBuilt

\* C4: the optimizer steps taken equal the yielded batches with a non-empty
\* loss_dict, each step follows one zero_grad and one backward pass of its own batch,
\* and a completed run whose batches all have losses and whose scheduler yields
\* n_batches_per_epoch batches per epoch has taken n_epochs * n_batches_per_epoch steps.
C4_StepsPerBatch ==
    /\ cnt.opt_step = cnt.nonempty
    /\ cnt.backward = cnt.opt_step
    /\ cnt.zero_grad = cnt.yielded
    /\ cur.opt_steps = (IF cur.empty THEN 0 ELSE 1)
    /\ cur.opt_steps = 1 => cur.zero_grads = 1 /\ cur.backwards = 1
    /\ (pc = "done" /\ yield_slack = 0 /\ cnt.nonempty = cnt.yielded) =>
           cnt.opt_step = cfg.n_epochs * n_batches_per_epoch

\* a run of two epochs of two batches ended after four optimizer steps
C4_Witness ==
    /\ pc = "done" /\ cfg.n_epochs = 2 /\ n_batches_per_epoch = 2
    /\ cnt.opt_step = 4 /\ cnt.yielded = 4
BatchProcessed == cur.total_batch_num >= 0 /\ pc \in {"batch", "close", "done"}

\* C5 as stated: after every yielded batch, also one with an empty loss_dict, the
\* cadence manager's update has been called once with the batch size and the triggers
\* have been consulted; update is called once per yielded batch.
C5_LoggingEveryBatch ==
    BatchProcessed =>
        /\ cur.updates = <<cur.batch_size>>
        /\ cur.triggers_consulted
        /\ cnt.update = cnt.yielded

\* C6: a batch with an empty loss_dict has no backward pass and no optimizer step
\* and leaves running_losses and running_counts as they were before it.
C6_EmptyBatchFrame ==
    [][ (pc = "batch" /\ cnt'.yielded = cnt.yielded + 1 /\ cur'.empty) =>
            /\ running_losses' = running_losses
            /\ running_counts' = running_counts
            /\ cur'.backwards = 0 /\ cur'.opt_steps = 0
            /\ cnt'.backward = cnt.backward /\ cnt'.opt_step = cnt.opt_step
            /\ pc' = "batch" ]_vars

\* an empty batch was processed while losses of an earlier batch were accumulated
C6_Witness ==
    /\ pc = "batch" /\ cur.total_batch_num >= 0 /\ cur.empty
    /\ running_losses # EmptyDict /\ win.count > 0

Logged == cur.triggers_consulted

\* C7: at every call of _aggregate_losses the overall metric is the sum of loss * count
\* divided by the sum of count over all (batch, task) pairs accumulated since the last
\* reset, and it is absent when that total count is 0.
C7_RunningAverage ==
    Logged =>
        IF cur.agg_win.count > 0
        THEN /\ LossKey \in DOMAIN cur.metric_dict
             /\ cur.metric_dict[LossKey] = Rat(cur.agg_win.loss, cur.agg_win.count)
        ELSE LossKey \notin DOMAIN cur.metric_dict

\* two batches with three counted samples between them were averaged: 4 / 3
C7_Witness ==
    /\ Logged /\ cur.agg_win.batches = 2
    /\ cur.agg_win.count = 3 /\ cur.agg_win.loss = 4
    /\ LossKey \in DOMAIN cur.metric_dict

WarmupOn == warmup_scheduler.kind = "LambdaLR"

\* C8: with warmup over W >= 1 steps, the rate of step s < W is base * (s + 1) / W
\* (base / W at step 0, base at step W - 1, increasing in between), and under the
\* constant policy the rate of every step s >= W is base.
C8_WarmupRamp ==
    (WarmupOn /\ cur.total_batch_num >= 0) =>
        LET st == cur.total_batch_num
            rate == IF st < warmup_steps THEN RMul(cfg.lr, Rat(st + 1, warmup_steps))
                    ELSE cfg.lr
        IN  /\ warmup_steps >= 1
            /\ (st < warmup_steps \/ cfg.lr_scheduler = "constant") =>
                  /\ lr = rate
                  /\ cur.opt_steps = 1 => cur.step_lr = rate
            /\ st < warmup_steps - 1 => RLt(lr, cfg.lr)

\* after a ramp of two steps, the optimizer step of step 2 used the base rate
C8_Witness ==
    /\ WarmupOn /\ warmup_steps = 2 /\ cfg.lr_scheduler = "constant"
    /\ cur.total_batch_num = 2 /\ cur.opt_steps = 1 /\ cur.step_lr = cfg.lr

DecayOn == lr_scheduler.kind \in {"LambdaLR", "ExponentialLR", "StepLR"}

\* C9: with a positive min_lr and a decay policy, after every decay step the rate is
\* at least min_lr, and it is min_lr when the policy's own value is below min_lr.
C9_FloorClamp ==
    (DecayOn /\ ~ RIsZero(cfg.min_lr) /\ cur.total_batch_num >= warmup_steps
        /\ cur.total_batch_num >= 0) =>
        /\ RLe(cfg.min_lr, lr)
        /\ RLt(DecayLr(cfg, n_batches_per_epoch, warmup_steps, lr_scheduler.kind,
                        lr_scheduler.last_epoch), cfg.min_lr) => lr = cfg.min_lr

\* after a warmup step, the second exponential decay step fell below the floor
C9_Witness ==
    /\ lr_scheduler.kind = "ExponentialLR" /\ lr_scheduler.last_epoch = 2
    /\ WarmupOn /\ warmup_steps = 1 /\ cur.total_batch_num = 2
    /\ ~ RIsZero(cfg.min_lr) /\ lr = cfg.min_lr

\* C10 as stated: the value train_model returns is the model close() returned.
C10_ReturnsClosedModel == pc = "done" => result.returned = result.close_ret

\* C10 amended: train_model returns nothing (None); close() is called once, after the
\* last batch of the last epoch, with the trained model, and its value is dropped.
C10_ClosedOnceAtEnd ==
    /\ pc # "done" => cnt.close = 0 /\ result = NoResult
    /\ pc = "done" =>
          /\ result.returned = None
          /\ cnt.close = 1
          /\ result.close_arg = cnt.opt_step
          /\ result.close_at = cnt.yielded
          /\ epoch_num = cfg.n_epochs - 1
          /\ \A i \in DOMAIN remaining : remaining[i] = 0
          /\ yield_slack = 0 => cnt.yielded = cfg.n_epochs * n_batches_per_epoch

\* a run with optimizer steps in two epochs ended in close()
C10_Witness ==
    /\ pc = "done" /\ cnt.close = 1 /\ result.close_arg > 1 /\ epoch_num = 1

\* the length a loader adds to an epoch: its own for a training loader, else nothing
TrainLenAt(i) == IF dataloaders[i].split = TrainSplit THEN dataloaders[i].len ELSE 0

\* C11: for every list of loaders that passes validation, n_batches_per_epoch is the
\* sum of the lengths of exactly the training loaders; validation and test loaders
\* add nothing.
C11_TrainLoadersOnly ==
    (Validated /\ pc # "failed") =>
        n_batches_per_epoch =
            (IF Len(dataloaders) >= 1 THEN TrainLenAt(1) ELSE 0)
          + (IF Len(dataloaders) >= 2 THEN TrainLenAt(2) ELSE 0)

\* a training loader of two batches next to a validation loader of two batches
C11_Witness ==
    /\ Validated /\ pc # "failed" /\ Len(dataloaders) = 2
    /\ dataloaders[1].split = ValidSplit /\ dataloaders[1].len = 2
    /\ dataloaders[2].split = TrainSplit /\ dataloaders[2].len = 2
    /\ n_batches_per_epoch = 2

\* C12 as stated: at every call of _aggregate_losses, every identifier
\* task/dataset/split/loss whose task has a nonzero accumulated count is in the
\* returned metrics, mapped to running_losses[identifier] divided by that count.
C12_PerTaskMetric ==
    [][ (pc = "logging" /\ cnt'.aggregate = cnt.aggregate + 1) =>
            \A t \in Tasks, i \in DOMAIN dataloaders :
                LET k == Identifier(t, DatasetName(i), dataloaders[i].split) IN
                (k \in DOMAIN running_losses /\ Get(running_counts, t) > 0) =>
                    /\ k \in DOMAIN cur'.metric_dict
                    /\ cur'.metric_dict[k] = Rat(running_losses[k], running_counts[t]) ]_vars

\* a batch is yielded and processed in this step
BatchYielded == cnt'.yielded = cnt.yielded + 1

\* C13 as stated: the clock strictly increases from each processed batch to the next,
\* whatever number of batches the scheduler yields in an epoch.
C13_ClockStrictlyIncreases ==
    [][ BatchYielded => cur'.total_batch_num > cur.total_batch_num ]_vars

\* C13 amended: the clock strictly increases from batch to batch inside an epoch, and
\* across an epoch boundary when the scheduler yielded at most n_batches_per_epoch
\* batches in the epoch that ended; after a longer epoch the first value of the next
\* epoch repeats an earlier one.  When every epoch has exactly n_batches_per_epoch
\* batches the k-th batch of the run has the value k - 1, below
\* n_epochs * n_batches_per_epoch.
C13_ClockMonotoneWithinBudget ==
    [][ BatchYielded =>
            LET old == cur.total_batch_num
                new == cur'.total_batch_num
            IN  /\ (batch_num > 0 \/ yield_slack <= 0) => new > old
                /\ (yield_slack > 0 /\ batch_num = 0 /\ epoch_num > 0) => new <= old
                /\ yield_slack = 0 =>
                      /\ new = cnt.yielded
                      /\ new < cfg.n_epochs * n_batches_per_epoch ]_vars

\* an epoch one batch short of n_batches_per_epoch = 2: the clock went from 0 to 2
C13_Witness ==
    /\ yield_slack = -1 /\ n_batches_per_epoch = 2 /\ epoch_num = 1
    /\ cnt.yielded = 2 /\ cur.total_batch_num = 2

\* C14: in every call of _update_lr_scheduler at most one schedule advances: for
\* total_batch_num < warmup_steps the warmup schedule advances by one and the decay
\* schedule's counter stays, for total_batch_num >= warmup_steps the decay schedule
\* advances by one (none under the constant policy) and the warmup counter stays.
C14_WarmupDecayExclusive ==
    [][ BatchYielded =>
            LET step == cur'.total_batch_num
                dw == warmup_scheduler'.last_epoch - warmup_scheduler.last_epoch
                dd == lr_scheduler'.last_epoch - lr_scheduler.last_epoch
            IN  /\ cur'.lr_updates = 1
                /\ dw + dd <= 1
                /\ step < warmup_steps => dw = 1 /\ dd = 0
                /\ step >= warmup_steps =>
                      /\ dw = 0
                      /\ dd = (IF lr_scheduler.kind = None THEN 0 ELSE 1) ]_vars

\* a linear decay after two warmup steps: both counters moved, never in the same step
C14_Witness ==
    /\ WarmupOn /\ warmup_steps = 2 /\ lr_scheduler.kind = "LambdaLR"
    /\ warmup_scheduler.last_epoch = 2 /\ lr_scheduler.last_epoch = 1
    /\ cur.total_batch_num = 2

\* the steps left to the decay schedule once the warmup is over
RemainingSteps == cfg.n_epochs * n_batches_per_epoch - warmup_steps

LinearNoFloor ==
    /\ lr_scheduler.kind = "LambdaLR" /\ RIsZero(cfg.min_lr)
    /\ RemainingSteps > 0

\* C15: under the linear policy without a floor and with R > 0 remaining steps, every
\* step after the warmup lowers the rate by base / R, the rate is never negative, and
\* it is zero exactly when the decay schedule has made all R of its steps.
C15_LinearDecayToZero ==
    [][ LinearNoFloor' =>
            /\ ~ RLt(lr', RInt(0))
            /\ lr_scheduler'.last_epoch <= RemainingSteps'
            /\ RIsZero(lr') <=> lr_scheduler'.last_epoch = RemainingSteps'
            /\ (BatchYielded /\ cur'.total_batch_num >= warmup_steps) =>
                  /\ lr_scheduler'.last_epoch = lr_scheduler.last_epoch + 1
                  /\ Rat(lr.n * lr'.d - lr'.n * lr.d, lr.d * lr'.d)
                        = Rat(cfg.lr.n, cfg.lr.d * RemainingSteps) ]_vars

\* one warmup step, then three decay steps in a run of four: the last batch of the
\* run took its optimizer step at rate zero
C15_Witness ==
    /\ LinearNoFloor /\ WarmupOn /\ warmup_steps = 1 /\ RemainingSteps = 3
    /\ lr_scheduler.last_epoch = 3 /\ cur.total_batch_num = 3
    /\ cur.opt_steps = 1 /\ RIsZero(cur.step_lr) /\ RIsZero(lr)

\* a logging step that returned to the loop
LoggingReturned == pc = "logging" /\ pc' = "batch"

\* C16: the accumulators are empty when training starts and right after every logging
\* step in which the evaluation or the checkpoint trigger fired; a logging step in
\* which neither fired leaves the accumulated losses and counts as they were.
C16_ResetOnTrigger ==
    [][ /\ (pc = "start" /\ pc' = "batch") =>
               running_losses' = EmptyDict /\ running_counts' = EmptyDict
        /\ LoggingReturned =>
               IF cur'.evaluated \/ cur'.ckpt_trigger
               THEN running_losses' = EmptyDict /\ running_counts' = EmptyDict
               ELSE /\ running_losses' = running_losses
                    /\ \A t \in DOMAIN running_counts : running_counts'[t] = running_counts[t]
                    /\ SumValues(running_counts') = SumValues(running_counts)
                    /\ win' = win ]_vars

\* a second batch was accumulated on top of a first one that no trigger had reset,
\* then a checkpoint trigger without evaluation emptied the accumulators
C16_Witness ==
    /\ Logged /\ pc = "batch" /\ cur.agg_win.batches = 2 /\ cur.agg_win.count = 2
    /\ cur.ckpt_trigger /\ ~ cur.evaluated
    /\ running_losses = EmptyDict /\ running_counts = EmptyDict

\* C17: the model is in training mode whenever calculate_loss is invoked: it is put
\* in training mode before the first batch, every logging step that returns leaves it
\* in training mode whatever triggers fired, and it is in evaluation mode only where
\* a logging step was entered and did not return.
C17_TrainModeForLoss ==
    /\ pc \in {"batch", "logging", "close", "done"} => model_mode = "train"
    /\ cnt.yielded > 0 => model_mode \in {"train", "eval"}
    /\ (Logged /\ pc # "failed") => model_mode = "train"
    /\ model_mode = "eval" => pc = "failed" /\ cur.ckpt_raised /\ cur.triggers_consulted
    /\ model_mode = "init" => cnt.yielded = 0 /\ pc \notin {"batch", "logging"}

\* a logging step with neither evaluation nor checkpoint returned in training mode
C17_Witness ==
    /\ Logged /\ pc = "batch" /\ ~ cur.evaluated /\ ~ cur.ckpt_trigger
    /\ model_mode = "train" /\ NextLoaders(batch_scheduler, remaining) # {}

\* C18: when checkpointer.checkpoint fails in a logging step, train_model ends with
\* that failure: the failing step belongs to the last batch that was processed and to
\* the last optimizer step that was taken, close() has not been called, and nothing
\* more happens in the call.
C18_CheckpointFailFast ==
    cur.ckpt_raised =>
        /\ pc = "failed" /\ err = "CheckpointError"
        /\ cur.total_batch_num = cnt.yielded - 1
        /\ cur.opt_steps = 1 /\ cnt.update = cnt.opt_step
        /\ cnt.close = 0 /\ result = NoResult
        /\ ~ ENABLED Next

\* the checkpoint of the first batch failed in a run that had three more batches to go
C18_Witness ==
    /\ pc = "failed" /\ err = "CheckpointError" /\ cur.ckpt_raised
    /\ cnt.yielded = 1 /\ cnt.opt_step = 1 /\ cnt.close = 0
    /\ cfg.n_epochs = 2 /\ n_batches_per_epoch = 2

\* a warmup is asked for: a positive warmup_steps in a recognised unit, or no
\* warmup_steps and a positive warmup_percentage
WarmupAsked ==
    \/ RLt(RInt(0), cfg.warmup_steps) /\ cfg.warmup_unit \in {"batches", "epochs"}
    \/ RIsZero(cfg.warmup_steps) /\ RLt(RInt(0), cfg.warmup_percentage)

\* C19 as stated: whenever a warmup schedule is constructed, for a positive setting in
\* either unit or a positive percentage, the computed integer warmup_steps is at
\* least 1 and the multiplier step / warmup_steps is defined.
C19_WarmupStepsPositive ==
    (WarmupAsked /\ warmup_steps # -1) =>
        warmup_steps >= 1 /\ err # "ZeroDivisionError"

\* the evaluation and the checkpoint trigger fired in the logging step of this batch,
\* and there is a checkpointer
BothFired == Logged /\ cur.evaluated /\ cur.ckpt_trigger /\ CheckpointerBuilt

\* C20: when both triggers fire in one logging step, the checkpointer receives the
\* metrics aggregated from the window as it was before the reset after evaluation
\* (the loss average when a count was accumulated, and the learning rate of the step)
\* together with the evaluation metrics of the step.
C20_CheckpointGetsWindowMetrics ==
    BothFired =>
        LET m == cur.ckpt_metrics IN
        /\ m = cur.metric_dict
        /\ LrKey \in DOMAIN m /\ m[LrKey] = lr
        /\ cur.agg_win.count > 0 =>
              /\ LossKey \in DOMAIN m
              /\ m[LossKey] = Rat(cur.agg_win.loss, cur.agg_win.count)
        /\ \A k \in DOMAIN Evaluate(dataloaders) :
              k \in DOMAIN m /\ m[k] = Evaluate(dataloaders)[k]
        /\ pc # "failed" => running_losses = EmptyDict /\ running_counts = EmptyDict

\* both triggers fired after two batches with counts: the checkpointer got their average
C20_Witness ==
    /\ BothFired /\ pc = "batch" /\ cur.checkpointed
    /\ Evaluate(dataloaders) # EmptyDict
    /\ cur.agg_win.batches = 2 /\ cur.agg_win.count = 2
    /\ LossKey \in DOMAIN cur.ckpt_metrics
    /\ running_losses = EmptyDict
====
